---- MODULE Spec2Model ----
(***************************************************************************)
(* WebSim MCP server: tool dispatch, argument validation, the request      *)
(* clients and the response rendering of the three server variants kept    *)
(* in the repository:                                                      *)
(*   "registry"  src/server.js 1-1184      tools[] + WebSimAPIClient       *)
(*   "sites"     src/server.js 1185-1849   McpServer + websimApiRequest    *)
(*   "projects"  src/unnamed/part_001      McpServer + websimApiRequest    *)
(* together with the formatting helpers of the renderers and the startup   *)
(* script src/websim-mcp-server/src/start.ts with its health listener.     *)
(***************************************************************************)
EXTENDS Integers, Sequences, FiniteSets, TLC

VARIABLES variant, clock, inv, env, running, calc, boot

vars == <<variant, clock, inv, env, running, calc, boot>>

(***************************************************************************)
(* Bounds of the model.                                                    *)
(***************************************************************************)
TickMs == 15000
MaxClock == 45000
MaxItems == 1
MaxAgeHours == 200
MaxCounterStep == 40

(***************************************************************************)
(* Program constants.                                                      *)
(***************************************************************************)
DEFAULT_TIMEOUT == 30000

Variants == {"registry", "sites", "projects"}

(***************************************************************************)
(* JavaScript values: undefined, numbers, strings, arrays (by length).     *)
(***************************************************************************)
Undefined == [k |-> "undefined", n |-> 0, s |-> ""]
Num(n) == [k |-> "number", n |-> n, s |-> ""]
Str(s) == [k |-> "string", n |-> 0, s |-> s]
Arr(n) == [k |-> "array", n |-> n, s |-> ""]
Null == [k |-> "null", n |-> 0, s |-> ""]

Get(obj, key) == IF key \in DOMAIN obj THEN obj[key] ELSE Undefined

\* destructuring default: `const { limit = 20 } = obj`
Dflt(v, d) == IF v.k = "undefined" THEN d ELSE v

DigitChars == "0123456789"

RECURSIVE Dec(_)
Dec(n) ==
  IF n < 10 THEN SubSeq(DigitChars, n + 1, n + 1)
  ELSE Dec(n \div 10) \o SubSeq(DigitChars, (n % 10) + 1, (n % 10) + 1)

\* String(value) / `${value}` / value.toString()
ToStr(v) ==
  CASE v.k = "undefined" -> "undefined"
    [] v.k = "null" -> "null"
    [] v.k = "number" -> Dec(v.n)
    [] v.k = "string" -> v.s
    [] OTHER -> "[object Object]"

UpperChars == "ABCDEFGHIJKLMNOPQRSTUVWXYZ"
LowerChars == "abcdefghijklmnopqrstuvwxyz"

LowerChar(c) ==
  IF \E j \in 1..26 : SubSeq(UpperChars, j, j) = c
  THEN LET j == CHOOSE j \in 1..26 : SubSeq(UpperChars, j, j) = c
       IN SubSeq(LowerChars, j, j)
  ELSE c

RECURSIVE ToLower(_)
ToLower(s) ==
  IF Len(s) = 0 THEN ""
  ELSE LowerChar(SubSeq(s, 1, 1)) \o ToLower(SubSeq(s, 2, Len(s)))

\* String.prototype.includes
Includes(hay, needle) ==
  \E j \in 1..(Len(hay) - Len(needle) + 1) :
    SubSeq(hay, j, j + Len(needle) - 1) = needle

(***************************************************************************)
(* zod schemas.  A field is z.string(), z.number(), z.enum([...]) or       *)
(* z.array(...), possibly .optional(), .default(d), .min(lo), .max(hi).    *)
(***************************************************************************)
ZString == [t |-> "string", opt |-> FALSE, hasDef |-> FALSE, def |-> Undefined,
            hasLo |-> FALSE, lo |-> 0, hasHi |-> FALSE, hi |-> 0, enum |-> {}]
ZStringOpt == [ZString EXCEPT !.opt = TRUE]
ZStringDef(d) == [ZString EXCEPT !.opt = TRUE, !.hasDef = TRUE, !.def = Str(d)]
ZArray == [ZString EXCEPT !.t = "array"]
ZNumberDef(d) ==
  [ZString EXCEPT !.t = "number", !.opt = TRUE, !.hasDef = TRUE, !.def = Num(d)]
ZNumberMinDef(lo, d) ==
  [ZNumberDef(d) EXCEPT !.hasLo = TRUE, !.lo = lo]
ZNumberRangeDef(lo, hi, d) ==
  [ZNumberDef(d) EXCEPT !.hasLo = TRUE, !.lo = lo, !.hasHi = TRUE, !.hi = hi]
ZNumberRangeOpt(lo, hi) ==
  [ZString EXCEPT !.t = "number", !.opt = TRUE,
                  !.hasLo = TRUE, !.lo = lo, !.hasHi = TRUE, !.hi = hi]
ZEnum(set) == [ZString EXCEPT !.t = "enum", !.enum = set]
ZEnumDef(set, d) ==
  [ZString EXCEPT !.t = "enum", !.enum = set, !.opt = TRUE,
                  !.hasDef = TRUE, !.def = Str(d)]

\* does value v pass the field's checks
ZodFieldOk(spec, v) ==
  IF v.k = "undefined" THEN spec.hasDef \/ spec.opt
  ELSE CASE spec.t = "string" -> v.k = "string"
         [] spec.t = "number" ->
              /\ v.k = "number"
              /\ (spec.hasLo => v.n >= spec.lo)
              /\ (spec.hasHi => v.n <= spec.hi)
         [] spec.t = "enum" -> v.k = "string" /\ v.s \in spec.enum
         [] spec.t = "array" -> v.k = "array"

\* the parsed value of a field that passed
ZodFieldVal(spec, v) ==
  IF v.k = "undefined" /\ spec.hasDef THEN spec.def ELSE v

\* z.object(shape).parse(args): unknown keys are stripped, defaults applied
ZodParse(shape, args) ==
  [ok |-> \A key \in DOMAIN shape : ZodFieldOk(shape[key], Get(args, key)),
   val |-> [key \in DOMAIN shape |-> ZodFieldVal(shape[key], Get(args, key))]]

\* a handler that reads `args` directly, with no schema
NoParse(args) == [ok |-> TRUE, val |-> args]

(***************************************************************************)
(* Variant "registry": the zod schemas of src/server.js and, per tool, the *)
(* declared inputSchema, the schema its handler parses with and the        *)
(* WebSimAPIClient method it calls.                                        *)
(***************************************************************************)
ProjectIdSchema == [project_id |-> ZString]
UserSlugSchema == [user |-> ZString, slug |-> ZString]
ProjectRevisionSchema == [project_id |-> ZString, version |-> ZStringOpt]
UserParamsSchema == [user |-> ZString]
SearchParamsSchema ==
  [query |-> ZString, limit |-> ZNumberDef(20), offset |-> ZNumberDef(0)]
FeedSearchSchema ==
  [sort |-> ZEnum({"trending", "newest", "popular"}), search |-> ZString]
BulkAssetSearchSchema == [assets |-> ZArray]
ProjectCommentsSchema ==
  [project_id |-> ZString, limit |-> ZNumberDef(20), offset |-> ZNumberDef(0)]

EmptySchema == [key \in {} |-> ZString]

\* the array with one name registered twice
tools_Duplicate ==
  << "get_project_by_id", "get_project_by_slug", "list_all_projects",
     "list_user_projects", "get_project_revisions", "get_project_stats",
     "get_project_descendants", "get_user", "get_user", "search_users",
     "get_user_following", "get_user_followers", "get_trending_feed",
     "get_posts_feed", "search_feed", "get_trending_rooms", "search_assets",
     "bulk_asset_search", "search_relevant_assets", "get_related_keywords",
     "get_top_searches", "get_project_assets", "get_project_comments",
     "get_comment_replies", "health_check" >>

\* the `tools` array, in order
tools ==
  << "get_project_by_id", "get_project_by_slug", "list_all_projects",
     "list_user_projects", "get_project_revisions", "get_project_stats",
     "get_project_descendants", "get_user", "get_user_stats", "search_users",
     "get_user_following", "get_user_followers", "get_trending_feed",
     "get_posts_feed", "search_feed", "get_trending_rooms", "search_assets",
     "bulk_asset_search", "search_relevant_assets", "get_related_keywords",
     "get_top_searches", "get_project_assets", "get_project_comments",
     "get_comment_replies", "health_check" >>

PageProps == [limit |-> ZNumberDef(20), offset |-> ZNumberDef(0)]

\* tool.inputSchema: properties with their defaults, `required` as non-optional
RegistryInputSchema(name) ==
  CASE name \in {"get_project_by_id", "get_project_stats"} ->
         [project_id |-> ZString]
    [] name = "get_project_by_slug" -> [user |-> ZString, slug |-> ZString]
    [] name \in {"list_all_projects", "get_trending_feed", "get_posts_feed",
                 "get_trending_rooms", "get_top_searches"} -> PageProps
    [] name \in {"list_user_projects", "get_user_following",
                 "get_user_followers"} ->
         [user |-> ZString, limit |-> ZNumberDef(20), offset |-> ZNumberDef(0)]
    [] name \in {"get_project_revisions", "get_project_descendants",
                 "get_project_comments"} ->
         [project_id |-> ZString, limit |-> ZNumberDef(20),
          offset |-> ZNumberDef(0)]
    [] name \in {"get_user", "get_user_stats"} -> [user |-> ZString]
    [] name \in {"search_users", "search_assets"} ->
         [query |-> ZString, limit |-> ZNumberDef(20), offset |-> ZNumberDef(0)]
    [] name = "search_feed" ->
         [sort |-> ZEnum({"trending", "newest", "popular"}), search |-> ZString,
          limit |-> ZNumberDef(20), offset |-> ZNumberDef(0)]
    [] name = "bulk_asset_search" -> [assets |-> ZArray]
    [] name \in {"search_relevant_assets", "get_related_keywords"} ->
         [query |-> ZString, limit |-> ZNumberDef(10)]
    [] name = "get_project_assets" ->
         [project_id |-> ZString, version |-> ZStringDef("latest")]
    [] name = "get_comment_replies" ->
         [project_id |-> ZString, comment_id |-> ZString,
          limit |-> ZNumberDef(20), offset |-> ZNumberDef(0)]
    [] name = "health_check" -> EmptySchema

\* the first statement of each handler: `Schema.parse(args)` or plain `args`
RegistryParse(name, args) ==
  CASE name \in {"get_project_by_id", "get_project_revisions",
                 "get_project_stats", "get_project_descendants"} ->
         ZodParse(ProjectIdSchema, args)
    [] name = "get_project_by_slug" -> ZodParse(UserSlugSchema, args)
    [] name \in {"list_user_projects", "get_user", "get_user_stats",
                 "get_user_following", "get_user_followers"} ->
         ZodParse(UserParamsSchema, args)
    [] name \in {"search_users", "search_assets"} ->
         ZodParse(SearchParamsSchema, args)
    [] name = "search_feed" -> ZodParse(FeedSearchSchema, args)
    [] name = "bulk_asset_search" -> ZodParse(BulkAssetSearchSchema, args)
    [] name = "get_project_assets" -> ZodParse(ProjectRevisionSchema, args)
    [] name = "get_project_comments" -> ZodParse(ProjectCommentsSchema, args)
    [] OTHER -> NoParse(args)

\* new URLSearchParams({ limit: limit.toString(), offset: offset.toString() })
\* behind the `limit = 20, offset = 0` defaults of handler and client method
LimitOffsetQuery(p) ==
  << <<"limit", ToStr(Dflt(Get(p, "limit"), Num(20)))>>,
     <<"offset", ToStr(Dflt(Get(p, "offset"), Num(0)))>> >>

QLimitOffsetQuery(p) ==
  << <<"q", ToStr(Get(p, "query"))>> >> \o LimitOffsetQuery(p)

QLimitQuery(p) ==
  << <<"q", ToStr(Get(p, "query"))>>,
     <<"limit", ToStr(Dflt(Get(p, "limit"), Num(10)))>> >>

\* the options' method not passed on to fetch
Endpoint_AlwaysGet(method, path, query, body) ==
  [method |-> "GET", path |-> path, query |-> query, body |-> body]

Endpoint(method, path, query, body) ==
  [method |-> method, path |-> path, query |-> query, body |-> body]

NoBody == Undefined

\* the WebSimAPIClient method each handler calls on the destructured `p`
RegistryEndpoint(name, p) ==
  LET pid == ToStr(Get(p, "project_id"))
      user == ToStr(Get(p, "user"))
      version == ToStr(Dflt(Get(p, "version"), Str("latest")))
  IN
  CASE name = "get_project_by_id" ->
         Endpoint("GET", "/api/v1/projects/" \o pid, <<>>, NoBody)
    [] name = "get_project_by_slug" ->
         Endpoint("GET", "/api/v1/users/" \o user \o "/slugs/"
                          \o ToStr(Get(p, "slug")), <<>>, NoBody)
    [] name = "list_all_projects" ->
         Endpoint("GET", "/api/v1/projects", LimitOffsetQuery(p), NoBody)
    [] name = "list_user_projects" ->
         Endpoint("GET", "/api/v1/users/" \o user \o "/projects",
                  LimitOffsetQuery(p), NoBody)
    [] name = "get_project_revisions" ->
         Endpoint("GET", "/api/v1/projects/" \o pid \o "/revisions",
                  LimitOffsetQuery(p), NoBody)
    [] name = "get_project_stats" ->
         Endpoint("GET", "/api/v1/projects/" \o pid \o "/stats", <<>>, NoBody)
    [] name = "get_project_descendants" ->
         Endpoint("GET", "/api/v1/projects/" \o pid \o "/descendants",
                  LimitOffsetQuery(p), NoBody)
    [] name = "get_user" ->
         Endpoint("GET", "/api/v1/users/" \o user, <<>>, NoBody)
    [] name = "get_user_stats" ->
         Endpoint("GET", "/api/v1/users/" \o user \o "/stats", <<>>, NoBody)
    [] name = "search_users" ->
         Endpoint("GET", "/api/v1/user-search", QLimitOffsetQuery(p), NoBody)
    [] name = "get_user_following" ->
         Endpoint("GET", "/api/v1/users/" \o user \o "/following",
                  LimitOffsetQuery(p), NoBody)
    [] name = "get_user_followers" ->
         Endpoint("GET", "/api/v1/users/" \o user \o "/followers",
                  LimitOffsetQuery(p), NoBody)
    [] name = "get_trending_feed" ->
         Endpoint("GET", "/api/v1/feed/trending", LimitOffsetQuery(p), NoBody)
    [] name = "get_posts_feed" ->
         Endpoint("GET", "/api/v1/feed/posts", LimitOffsetQuery(p), NoBody)
    [] name = "search_feed" ->
         Endpoint("GET", "/api/v1/feed/search/" \o ToStr(Get(p, "sort")) \o "/"
                          \o ToStr(Get(p, "search")),
                  LimitOffsetQuery(p), NoBody)
    [] name = "get_trending_rooms" ->
         Endpoint("GET", "/api/v1/feed/rooms", LimitOffsetQuery(p), NoBody)
    [] name = "search_assets" ->
         Endpoint("GET", "/api/v1/search/assets", QLimitOffsetQuery(p), NoBody)
    [] name = "bulk_asset_search" ->
         Endpoint("POST", "/api/v1/search/assets/bulk", <<>>, Get(p, "assets"))
    [] name = "search_relevant_assets" ->
         Endpoint("GET", "/api/v1/search/assets/relevant", QLimitQuery(p),
                  NoBody)
    [] name = "get_related_keywords" ->
         Endpoint("GET", "/api/v1/search/related", QLimitQuery(p), NoBody)
    [] name = "get_top_searches" ->
         Endpoint("GET", "/api/v1/search/top", LimitOffsetQuery(p), NoBody)
    [] name = "get_project_assets" ->
         Endpoint("GET", "/api/v1/projects/" \o pid \o "/revisions/"
                          \o version \o "/assets",
                  << <<"version", version>> >>, NoBody)
    [] name = "get_project_comments" ->
         Endpoint("GET", "/api/v1/projects/" \o pid \o "/comments",
                  LimitOffsetQuery(p), NoBody)
    [] name = "get_comment_replies" ->
         Endpoint("GET", "/api/v1/projects/" \o pid \o "/comments/"
                          \o ToStr(Get(p, "comment_id")) \o "/replies",
                  LimitOffsetQuery(p), NoBody)
    [] name = "health_check" ->
         Endpoint("GET", "/api/v1/projects", <<>>, NoBody)

(***************************************************************************)
(* Variants "sites" and "projects": server.tool(name, shape, handler).     *)
(* McpServer parses the arguments with z.object(shape) before the handler  *)
(* runs; the handler builds `params` and calls websimApiRequest.           *)
(***************************************************************************)
SitesTools ==
  << "get_trending_sites", "get_site_details", "get_site_by_username_slug",
     "get_user_profile", "get_user_bookmarks", "get_following_bookmarks",
     "get_user_following", "get_user_followers", "get_user_likes" >>

ProjectsTools ==
  << "get_project", "get_project_by_slug", "list_trending_projects",
     "get_user", "get_user_projects", "get_user_stats", "search_projects",
     "search_assets", "list_project_comments", "get_related_keywords",
     "list_project_screenshots" >>

LimitShape == ZNumberRangeDef(1, 100, 20)
OffsetShape == ZNumberMinDef(0, 0)

SitesShape(name) ==
  CASE name = "get_trending_sites" ->
         [range |-> ZEnumDef({"day", "week", "month", "all"}, "day"),
          class |-> ZStringOpt, limit |-> LimitShape]
    [] name = "get_site_details" -> [site_id |-> ZString]
    [] name = "get_site_by_username_slug" ->
         [username |-> ZString, slug |-> ZString]
    [] name = "get_user_profile" -> [username_or_id |-> ZString]
    [] name \in {"get_user_bookmarks", "get_following_bookmarks",
                 "get_user_following", "get_user_followers",
                 "get_user_likes"} ->
         [username_or_id |-> ZString, limit |-> LimitShape]

ProjectsShape(name) ==
  CASE name = "get_project" -> [id |-> ZString]
    [] name = "get_project_by_slug" -> [user |-> ZString, slug |-> ZString]
    [] name = "list_trending_projects" ->
         [limit |-> LimitShape, offset |-> OffsetShape,
          range |-> ZEnumDef({"hour", "day", "week", "month", "all"}, "day"),
          feed |-> ZEnumDef({"trending", "popular", "new"}, "trending")]
    [] name \in {"get_user", "get_user_stats"} -> [username |-> ZString]
    [] name = "get_user_projects" ->
         [username |-> ZString, query |-> ZStringOpt,
          sort_by |-> ZEnumDef({"created", "updated", "views", "likes",
                                "title"}, "updated"),
          limit |-> LimitShape, offset |-> OffsetShape]
    [] name = "search_projects" ->
         [query |-> ZString,
          sort |-> ZEnumDef({"relevance", "date", "views", "likes",
                             "trending"}, "relevance"),
          limit |-> LimitShape, offset |-> OffsetShape]
    [] name = "search_assets" ->
         [query |-> ZString, mime_type |-> ZStringOpt,
          limit |-> LimitShape, offset |-> OffsetShape]
    [] name = "list_project_comments" ->
         [id |-> ZString, first |-> ZNumberRangeOpt(1, 100),
          last |-> ZNumberRangeOpt(1, 100), before |-> ZStringOpt,
          after |-> ZStringOpt,
          sort_by |-> ZEnumDef({"created", "likes"}, "created"),
          sort_order |-> ZEnumDef({"asc", "desc"}, "desc")]
    [] name = "get_related_keywords" ->
         [query |-> ZString, limit |-> ZNumberRangeDef(1, 50, 10),
          min_frequency |-> ZNumberMinDef(1, 1)]
    [] name = "list_project_screenshots" ->
         [id |-> ZString, version |-> ZNumberDef(1)]

\* JavaScript truthiness of the values in use
Truthy(v) ==
  CASE v.k = "undefined" -> FALSE
    [] v.k = "null" -> FALSE
    [] v.k = "string" -> v.s # ""
    [] v.k = "number" -> v.n # 0
    [] OTHER -> TRUE

\* Object.entries(params).forEach: append String(value) unless it is
\* undefined or null
RECURSIVE AppendParams(_)
AppendParams(params) ==
  IF params = <<>> THEN <<>>
  ELSE LET kv == Head(params)
       IN (IF kv[2].k = "undefined" THEN <<>>
           ELSE << <<kv[1], ToStr(kv[2])>> >>)
          \o AppendParams(Tail(params))

\* `...(x && { key: x })`
Spread(key, v) == IF Truthy(v) THEN << <<key, v>> >> ELSE <<>>

SafeChars ==
  "abcdefghijklmnopqrstuvwxyzABCDEFGHIJKLMNOPQRSTUVWXYZ0123456789-_.!~*'()"

\* encodeURIComponent on the characters the inputs use
EncodeChar(c) ==
  IF Includes(SafeChars, c) THEN c
  ELSE IF c = " " THEN "%20"
  ELSE IF c = "/" THEN "%2F"
  ELSE "%3F"

RECURSIVE EncodeURIComponent(_)
EncodeURIComponent(s) ==
  IF Len(s) = 0 THEN ""
  ELSE EncodeChar(SubSeq(s, 1, 1)) \o EncodeURIComponent(SubSeq(s, 2, Len(s)))

SitesEndpoint(name, p) ==
  LET who == ToStr(Get(p, "username_or_id"))
      first == << <<"first", Get(p, "limit")>> >>
  IN
  CASE name = "get_trending_sites" ->
         Endpoint("GET", "/feed/trending",
                  AppendParams(<< <<"range", Get(p, "range")>> >>
                               \o Spread("class", Get(p, "class")) \o first),
                  NoBody)
    [] name = "get_site_details" ->
         Endpoint("GET", "/sites/" \o ToStr(Get(p, "site_id")), <<>>, NoBody)
    [] name = "get_site_by_username_slug" ->
         Endpoint("GET", "/sites/" \o ToStr(Get(p, "username")) \o "/"
                          \o ToStr(Get(p, "slug")),
                  AppendParams(<< <<"include", Str("session")>> >>), NoBody)
    [] name = "get_user_profile" ->
         Endpoint("GET", "/users/" \o who, <<>>, NoBody)
    [] name = "get_user_bookmarks" ->
         Endpoint("GET", "/users/" \o who \o "/bookmarks",
                  AppendParams(first), NoBody)
    [] name = "get_following_bookmarks" ->
         Endpoint("GET", "/users/" \o who \o "/following/bookmarks",
                  AppendParams(first), NoBody)
    [] name = "get_user_following" ->
         Endpoint("GET", "/users/" \o who \o "/following",
                  AppendParams(first), NoBody)
    [] name = "get_user_followers" ->
         Endpoint("GET", "/users/" \o who \o "/followers",
                  AppendParams(first), NoBody)
    [] name = "get_user_likes" ->
         Endpoint("GET", "/users/" \o who \o "/likes",
                  AppendParams(first), NoBody)

ProjectsEndpoint(name, p) ==
  LET id == ToStr(Get(p, "id"))
      username == ToStr(Get(p, "username"))
      lim == <<"limit", Get(p, "limit")>>
      off == <<"offset", Get(p, "offset")>>
      query == <<"query", Get(p, "query")>>
  IN
  CASE name = "get_project" ->
         Endpoint("GET", "/api/v1/projects/" \o id, <<>>, NoBody)
    [] name = "get_project_by_slug" ->
         Endpoint("GET", "/api/v1/users/" \o ToStr(Get(p, "user")) \o "/slugs/"
                          \o ToStr(Get(p, "slug")), <<>>, NoBody)
    [] name = "list_trending_projects" ->
         Endpoint("GET", "/api/v1/feed/trending",
                  AppendParams(<< lim, off, <<"range", Get(p, "range")>>,
                                  <<"feed", Get(p, "feed")>> >>), NoBody)
    [] name = "get_user" ->
         Endpoint("GET", "/api/v1/users/" \o username, <<>>, NoBody)
    [] name = "get_user_projects" ->
         Endpoint("GET", "/api/v1/users/" \o username \o "/projects",
                  AppendParams(<< lim, off, <<"sort", Get(p, "sort_by")>> >>
                               \o Spread("query", Get(p, "query"))), NoBody)
    [] name = "get_user_stats" ->
         Endpoint("GET", "/api/v1/users/" \o username \o "/stats", <<>>, NoBody)
    [] name = "search_projects" ->
         Endpoint("GET", "/api/v1/feed/search/trending/"
                          \o EncodeURIComponent(ToStr(Get(p, "query"))),
                  AppendParams(<< query, <<"sort", Get(p, "sort")>>, lim,
                                  off >>), NoBody)
    [] name = "search_assets" ->
         Endpoint("GET", "/api/v1/search/assets",
                  AppendParams(<< query, <<"mime_type", Get(p, "mime_type")>>,
                                  lim, off >>), NoBody)
    [] name = "list_project_comments" ->
         Endpoint("GET", "/api/v1/projects/" \o id \o "/comments",
                  AppendParams(<< <<"first", Get(p, "first")>>,
                                  <<"last", Get(p, "last")>>,
                                  <<"before", Get(p, "before")>>,
                                  <<"after", Get(p, "after")>>,
                                  <<"sort_by", Get(p, "sort_by")>>,
                                  <<"sort_order", Get(p, "sort_order")>> >>),
                  NoBody)
    [] name = "get_related_keywords" ->
         Endpoint("GET", "/api/v1/search/related",
                  AppendParams(<< query, lim,
                                  <<"min_frequency",
                                    Get(p, "min_frequency")>> >>), NoBody)
    [] name = "list_project_screenshots" ->
         Endpoint("GET", "/api/v1/projects/" \o id \o "/revisions/"
                          \o ToStr(Get(p, "version")) \o "/screenshots",
                  <<>>, NoBody)

(***************************************************************************)
(* The registry of the running variant.                                    *)
(***************************************************************************)
Min(S) == CHOOSE x \in S : \A y \in S : x <= y

Range(f) == {f[j] : j \in DOMAIN f}

ToolList(v) ==
  CASE v = "registry" -> tools
    [] v = "sites" -> SitesTools
    [] v = "projects" -> ProjectsTools

\* the schema a tool declares to its callers
Declared(v, name) ==
  CASE v = "registry" -> RegistryInputSchema(name)
    [] v = "sites" -> SitesShape(name)
    [] v = "projects" -> ProjectsShape(name)

\* validation in front of the handler body
Validate(v, name, args) ==
  CASE v = "registry" -> RegistryParse(name, args)
    [] v = "sites" -> ZodParse(SitesShape(name), args)
    [] v = "projects" -> ZodParse(ProjectsShape(name), args)

BuildEndpoint(v, name, p) ==
  CASE v = "registry" -> RegistryEndpoint(name, p)
    [] v = "sites" -> SitesEndpoint(name, p)
    [] v = "projects" -> ProjectsEndpoint(name, p)

(***************************************************************************)
(* Errors (name, message) and the catch blocks of the request clients.     *)
(***************************************************************************)
Err(name, message) == [name |-> name, message |-> message]

\* what fetch() rejects with when the connection fails / the signal aborts
FetchFailed == Err("TypeError", "fetch failed")
AbortError == Err("AbortError", "This operation was aborted")
\* what response.json() rejects with on a body that is not JSON
JsonSyntaxError == Err("SyntaxError", "Unexpected token < in JSON at position 0")
\* what Schema.parse throws
ZodError == Err("ZodError", "[ { \"code\": \"invalid_type\" } ]")

Ok(status) == status >= 200 /\ status <= 299

\* WebSimAPIClient.makeRequest: `throw new Error(HTTP status: statusText)`
makeRequestHttpError(status, statusText) ==
  Err("Error", "HTTP " \o Dec(status) \o ": " \o statusText)

\* WebSimAPIClient.makeRequest: the catch block
makeRequestCatch(error, timeout) ==
  IF error.name = "AbortError"
  THEN Err("Error", "Request timeout after " \o Dec(timeout) \o "ms")
  ELSE Err("Error", "API request failed: " \o error.message)

GenericApiError(status, statusText) ==
  Err("Error", "WebSim API error: " \o Dec(status) \o " " \o statusText)

\* websimApiRequest of src/server.js: what the inner `try` throws after
\* `await response.json()` on a non-2xx response
SitesInnerTry(status, statusText, body) ==
  IF body.kind = "text" THEN JsonSyntaxError
  ELSE IF status = 404 THEN Err("Error", "Resource not found")
  ELSE IF status = 429
    THEN Err("Error", "Rate limit exceeded. Please try again later.")
  ELSE IF status >= 500
    THEN Err("Error", "WebSim service temporarily unavailable")
  ELSE Err("Error", "WebSim API error: "
                     \o (IF body.errmsg # "" THEN body.errmsg
                         ELSE Dec(status) \o " " \o statusText))

\* ... and the bare `catch { throw ... }` around it, which receives every one
\* of those throws
SitesInnerCatch(thrown, status, statusText) ==
  GenericApiError(status, statusText)

SitesNotOk(status, statusText, body) ==
  SitesInnerCatch(SitesInnerTry(status, statusText, body), status, statusText)

\* websimApiRequest of part_001: classification by status, body not read
ProjectsNotOk(status, statusText) ==
  IF status = 404 THEN Err("Error", "Resource not found")
  ELSE IF status = 429
    THEN Err("Error", "Rate limit exceeded. Please try again later.")
  ELSE IF status >= 500
    THEN Err("Error", "WebSim service temporarily unavailable")
  ELSE GenericApiError(status, statusText)

\* websimApiRequest: the outer catch block (both variants)
websimApiRequestCatch(error) ==
  IF Includes(error.message, "fetch")
  THEN Err("Error", "Unable to connect to WebSim service. "
                     \o "Please check your internet connection.")
  ELSE error

\* the `Failed to ...: ` prefix of each server.tool handler's catch block
FailPrefix(v, name) ==
  IF v = "sites" THEN
    CASE name = "get_trending_sites" -> "Failed to get trending sites: "
      [] name = "get_site_details" -> "Failed to get site details: "
      [] name = "get_site_by_username_slug" ->
           "Failed to get site by username/slug: "
      [] name = "get_user_profile" -> "Failed to get user profile: "
      [] name = "get_user_bookmarks" -> "Failed to get user bookmarks: "
      [] name = "get_following_bookmarks" ->
           "Failed to get following bookmarks: "
      [] name = "get_user_following" -> "Failed to get user following: "
      [] name = "get_user_followers" -> "Failed to get user followers: "
      [] name = "get_user_likes" -> "Failed to get user likes: "
  ELSE
    CASE name \in {"get_project", "get_project_by_slug"} ->
           "Failed to get project: "
      [] name = "list_trending_projects" -> "Failed to get trending projects: "
      [] name = "get_user" -> "Failed to get user profile: "
      [] name = "get_user_projects" -> "Failed to get user projects: "
      [] name = "get_user_stats" -> "Failed to get user stats: "
      [] name = "search_projects" -> "Failed to search projects: "
      [] name = "search_assets" -> "Failed to search assets: "
      [] name = "list_project_comments" -> "Failed to get project comments: "
      [] name = "get_related_keywords" -> "Failed to get related keywords: "
      [] name = "list_project_screenshots" ->
           "Failed to get project screenshots: "

HandlerCatch(v, name, error) ==
  Err("Error", FailPrefix(v, name) \o error.message)

\* the request as fetch() receives it
WEBSIM_API_BASE(v) ==
  CASE v = "registry" -> "https://api.websim.com"
    [] v = "sites" -> "https://websim.ai/api/v1"
    [] v = "projects" -> "https://api.websim.com"

USER_AGENT == "websim-mcp-server/1.0.0 (contact: minimax@agent.com)"

RequestHeaders(v) ==
  IF v = "registry" THEN {<<"Content-Type", "application/json">>}
  ELSE {<<"User-Agent", USER_AGENT>>, <<"Accept", "application/json">>}

FetchRequest(v, ep) ==
  [method |-> ep.method, url |-> WEBSIM_API_BASE(v) \o ep.path,
   query |-> ep.query, headers |-> RequestHeaders(v), body |-> ep.body]

(***************************************************************************)
(* Result envelopes.  A text block carries either the registry's JSON      *)
(* object (success, status, error/message, timestamp, item count) or the   *)
(* markdown of a server.tool handler (header count, numbered blocks, hint).*)
(***************************************************************************)
NoHint == [param |-> "none", n |-> 0]
NoOut == [count |-> -1, blocks |-> <<>>, hint |-> NoHint]

Payload(success, status, message, timestamp, out) ==
  [success |-> success, status |-> status, message |-> message,
   timestamp |-> timestamp, out |-> out]

TextBlock(payload) == [type |-> "text", text |-> payload]

NoEnvelope == [present |-> FALSE, isError |-> FALSE, content |-> <<>>]

\* the dispatcher's catch block: { content: [{type: "text", text:
\* JSON.stringify({success: false, error: error.message, timestamp})}],
\* isError: true }
ErrorEnvelope(error, now) ==
  [present |-> TRUE, isError |-> TRUE,
   content |-> << TextBlock(Payload("false", "none", error.message, now,
                                     NoOut)) >>]

\* McpServer's conversion of a thrown handler error
McpErrorEnvelope(error) ==
  [present |-> TRUE, isError |-> TRUE,
   content |-> << TextBlock(Payload("none", "none", error.message, -1,
                                     NoOut)) >>]

SuccessEnvelope(payload) ==
  [present |-> TRUE, isError |-> FALSE, content |-> << TextBlock(payload) >>]

(***************************************************************************)
(* Upstream responses.                                                     *)
(***************************************************************************)
Statuses == {200, 400, 404, 429, 500, 503}

StdStatusText(status) ==
  CASE status = 200 -> "OK"
    [] status = 400 -> "Bad Request"
    [] status = 404 -> "Not Found"
    [] status = 429 -> "Too Many Requests"
    [] status = 500 -> "Internal Server Error"
    [] status = 503 -> "Service Unavailable"

\* HTTP/2 responses carry no reason phrase: statusText is then ""
StatusTexts(status) == {StdStatusText(status), ""}

Body(kind, items, hasMore, errmsg) ==
  [kind |-> kind, items |-> items, hasMore |-> hasMore, errmsg |-> errmsg]

NoBodyYet == Body("none", <<>>, FALSE, "")

Items == [project : BOOLEAN]

ItemSeqs == UNION {[1..n -> Items] : n \in 0..MaxItems}

\* bodies of a 2xx response: a JSON result, or something that is not JSON
OkBodies ==
  {Body("json", its, h, "") : its \in ItemSeqs, h \in BOOLEAN}
    \cup {Body("text", <<>>, FALSE, "")}

\* bodies of a non-2xx response: {error: {message}}, JSON without a message,
\* or something that is not JSON
ErrorBodies ==
  {Body("json", <<>>, FALSE, "quota exceeded"), Body("json", <<>>, FALSE, ""),
   Body("text", <<>>, FALSE, "")}

(***************************************************************************)
(* Rendering of a successful response.                                     *)
(***************************************************************************)
\* a placeholder entry printed for an empty list
Indices_Placeholder(items, needProject) ==
  IF items = <<>> THEN <<0>>
  ELSE SelectSeq([j \in 1..Len(items) |-> j],
                 LAMBDA j : (~needProject) \/ items[j].project)

Indices(items, needProject) ==
  SelectSeq([j \in 1..Len(items) |-> j],
            LAMBDA j : (~needProject) \/ items[j].project)

\* tools whose message interpolates `result.items?.length || 0`
RegistryCounted ==
  Range(tools) \ {"get_project_by_id", "get_project_by_slug",
                  "get_project_stats", "get_user", "get_user_stats",
                  "bulk_asset_search", "get_project_assets", "health_check"}

\* every result stamped with the time of the call
RegistryRender_Stamped(name, p, body, now) ==
  IF name = "health_check"
  THEN Payload("true", "healthy", "WebSim API is accessible", now, NoOut)
  ELSE Payload("true", "none", "", now,
               [NoOut EXCEPT !.count = IF name \in RegistryCounted
                                       THEN Len(body.items) ELSE -1])

RegistryRender(name, p, body, now) ==
  IF name = "health_check"
  THEN Payload("true", "healthy", "WebSim API is accessible", now, NoOut)
  ELSE Payload("true", "none", "", -1,
               [NoOut EXCEPT !.count = IF name \in RegistryCounted
                                       THEN Len(body.items) ELSE -1])

SitesLimitOnly ==
  {"get_user_bookmarks", "get_following_bookmarks", "get_user_following",
   "get_user_followers", "get_user_likes"}

\* `Use limit ${limit + 20} to see more.`
SitesHint(p, body) ==
  IF body.hasMore THEN [param |-> "limit", n |-> Get(p, "limit").n + 20]
  ELSE NoHint

SitesRender(name, p, body) ==
  IF name \in SitesLimitOnly
  THEN Payload("none", "none", "", -1,
               [count |-> Len(body.items), blocks |-> Indices(body.items, FALSE),
                hint |-> SitesHint(p, body)])
  ELSE IF name = "get_trending_sites"
  THEN Payload("none", "none", "", -1,
               [count |-> Len(body.items), blocks |-> Indices(body.items, FALSE),
                hint |-> NoHint])
  ELSE Payload("none", "none", "", -1, NoOut)

ProjectsFeedTools == {"list_trending_projects", "search_projects"}

ProjectsListTools ==
  {"get_user_projects", "search_assets", "list_project_comments",
   "get_related_keywords", "list_project_screenshots"}

\* the hint without the offset added
ProjectsHint_LimitOnly(p, body) ==
  IF body.hasMore THEN [param |-> "offset", n |-> Get(p, "limit").n]
  ELSE NoHint

\* `Use offset ${offset + limit} to see more.`
ProjectsHint(p, body) ==
  IF body.hasMore
  THEN [param |-> "offset", n |-> Get(p, "offset").n + Get(p, "limit").n]
  ELSE NoHint

ProjectsRender(name, p, body) ==
  IF name \in ProjectsFeedTools
  THEN Payload("none", "none", "", -1,
               [count |-> Len(body.items), blocks |-> Indices(body.items, TRUE),
                hint |-> ProjectsHint(p, body)])
  ELSE IF name \in ProjectsListTools
  THEN Payload("none", "none", "", -1,
               [count |-> Len(body.items), blocks |-> Indices(body.items, FALSE),
                hint |-> NoHint])
  ELSE Payload("none", "none", "", -1, NoOut)

Render(v, name, p, body, now) ==
  CASE v = "registry" -> RegistryRender(name, p, body, now)
    [] v = "sites" -> SitesRender(name, p, body)
    [] v = "projects" -> ProjectsRender(name, p, body)

(***************************************************************************)
(* Formatting helpers.  Time is counted in milliseconds from the model's   *)
(* zero, taken to be Jan 1, 2026, 00:00 UTC; a timestamp of the upstream   *)
(* is the number of the instant it denotes, and the process runs in UTC.   *)
(***************************************************************************)
Minute == 1000 * 60
Hour == 1000 * 60 * 60
Day == 1000 * 60 * 60 * 24

\* `const now = new Date()` for the helpers evaluated on their own
NowMs == 10 * Day

Pad2(n) == IF n < 10 THEN "0" \o Dec(n) ELSE Dec(n)

\* date.toLocaleString("en-US", {year: "numeric", month: "short", day:
\* "numeric", hour: "2-digit", minute: "2-digit", timeZoneName: "short"});
\* new Date(undefined) is an invalid date, new Date(null) is the epoch
formatDateTime(timestamp) ==
  CASE timestamp.k = "null" -> "Jan 1, 1970, 12:00 AM UTC"
    [] timestamp.k = "number" /\ timestamp.n >= 0
         /\ timestamp.n \div Day < 31 ->
         LET h == (timestamp.n \div Hour) % 24
             m == (timestamp.n \div Minute) % 60
         IN "Jan " \o Dec(1 + (timestamp.n \div Day)) \o ", 2026, "
              \o Pad2(IF h % 12 = 0 THEN 12 ELSE h % 12) \o ":" \o Pad2(m)
              \o (IF h < 12 THEN " AM" ELSE " PM") \o " UTC"
    [] OTHER -> "Invalid Date"

\* the day count compared with <= instead of <
formatRelativeTime_Inclusive(timestamp, now) ==
  IF timestamp.k # "number" THEN formatDateTime(timestamp)
  ELSE LET diffMs == now - timestamp.n
           diffMinutes == diffMs \div Minute
           diffHours == diffMs \div Hour
           diffDays == diffMs \div Day
       IN IF diffMinutes < 1 THEN "just now"
          ELSE IF diffMinutes < 60 THEN Dec(diffMinutes) \o "m ago"
          ELSE IF diffHours < 24 THEN Dec(diffHours) \o "h ago"
          ELSE IF diffDays <= 7 THEN Dec(diffDays) \o "d ago"
          ELSE formatDateTime(timestamp)

\* an invalid date makes every comparison false (NaN); null is the epoch,
\* decades before now
formatRelativeTime(timestamp, now) ==
  IF timestamp.k # "number" THEN formatDateTime(timestamp)
  ELSE LET diffMs == now - timestamp.n
           diffMinutes == diffMs \div Minute
           diffHours == diffMs \div Hour
           diffDays == diffMs \div Day
       IN IF diffMinutes < 1 THEN "just now"
          ELSE IF diffMinutes < 60 THEN Dec(diffMinutes) \o "m ago"
          ELSE IF diffHours < 24 THEN Dec(diffHours) \o "h ago"
          ELSE IF diffDays < 7 THEN Dec(diffDays) \o "d ago"
          ELSE formatDateTime(timestamp)

Pad3(n) == IF n < 10 THEN "00" \o Dec(n) ELSE IF n < 100 THEN "0" \o Dec(n)
           ELSE Dec(n)

\* num.toLocaleString("en-US") of a non-negative integer
RECURSIVE formatNumber(_)
formatNumber(num) ==
  IF num < 1000 THEN Dec(num)
  ELSE formatNumber(num \div 1000) \o "," \o Pad3(num % 1000)

\* what a handler of the variant prints for a counter of the upstream: the
\* registry handlers print the upstream object with JSON.stringify, the
\* others interpolate formatNumber(...)
PrintCounter(v, num) ==
  IF v = "registry" THEN Dec(num) ELSE formatNumber(num)

(***************************************************************************)
(* Rendering of one upstream record.  The text is kept as its lines, each  *)
(* with the field of the record it is written from.                        *)
(***************************************************************************)
Line(field, text) == [field |-> field, text |-> text]

\* `${value || fallback}`
OrElse(v, fallback) == IF Truthy(v) THEN ToStr(v) ELSE fallback

\* if (value) { markdown += ... }
Guarded(v, line) == IF Truthy(v) THEN << line >> ELSE <<>>

\* `${formatDateTime(t)} (${formatRelativeTime(t)})`
Stamp(t, now) == formatDateTime(t) \o " (" \o formatRelativeTime(t, now) \o ")"

get_user_profile(user, now) ==
  << Line("username", "**Username:** " \o OrElse(user.username, "N/A")),
     Line("id", "**User ID:** " \o ToStr(user.id)),
     Line("created_at", "**Created:** " \o Stamp(user.created_at, now)) >>
  \o Guarded(user.description,
             Line("description", "**Description:** " \o ToStr(user.description)))
  \o Guarded(user.twitter,
             Line("twitter", "**Twitter:** " \o ToStr(user.twitter)))
  \o Guarded(user.discord,
             Line("discord", "**Discord:** " \o ToStr(user.discord)))
  \o Guarded(user.followed_at,
             Line("followed_at",
                  "**Followed:** " \o Stamp(user.followed_at, now)))
  \o << Line("username", "**Profile URL:** https://websim.ai/@"
                           \o ToStr(user.username)) >>

get_site_details(site, project, now) ==
  << Line("id", "**Site ID:** " \o ToStr(site.id)),
     Line("title", "**Title:** " \o OrElse(site.title, "Untitled Site")) >>
  \o Guarded(site.model, Line("model", "**Model:** " \o ToStr(site.model)))
  \o << Line("state", "**State:** " \o ToStr(site.state)),
        Line("created_at", "**Created:** " \o Stamp(site.created_at, now)) >>
  \o Guarded(site.link_url,
             Line("link_url", "**Link URL:** " \o ToStr(site.link_url)))
  \o (IF Truthy(project)
      THEN Guarded(project.title,
                   Line("project.title",
                        "**Project Title:** " \o ToStr(project.title)))
           \o << Line("project.id", "**Project ID:** " \o ToStr(project.id)),
                 Line("project.visibility",
                      "**Visibility:** " \o ToStr(project.visibility)),
                 Line("project.updated_at",
                      "**Updated:** " \o formatDateTime(project.updated_at)) >>
      ELSE <<>>)
  \o << Line("id", "**Live Site URL:** https://websim.ai/c/" \o ToStr(site.id)) >>

\* one entry of get_user_following
get_user_following(index, follow, now) ==
  LET user == follow.user IN
  << Line("username", "## " \o Dec(index + 1) \o ". "
                        \o OrElse(user.username, "N/A")),
     Line("id", "**User ID:** " \o ToStr(user.id)),
     Line("username", "**Username:** " \o OrElse(user.username, "N/A")) >>
  \o Guarded(user.description,
             Line("description", "**Description:** " \o ToStr(user.description)))
  \o Guarded(user.twitter,
             Line("twitter", "**Twitter:** " \o ToStr(user.twitter)))
  \o Guarded(user.discord,
             Line("discord", "**Discord:** " \o ToStr(user.discord)))
  \o << Line("created_at",
             "**Followed Since:** " \o Stamp(follow.created_at, now)),
        Line("username", "**Profile:** https://websim.ai/@"
                           \o ToStr(user.username)) >>

(***************************************************************************)
(* One tool invocation.                                                    *)
(***************************************************************************)
EmptyArgs == [key \in {} |-> Undefined]

Idle ==
  [phase |-> "idle", name |-> "", args |-> EmptyArgs, found |-> FALSE,
   ran |-> FALSE, p |-> EmptyArgs, requests |-> <<>>, timer |-> "none",
   deadline |-> 0, status |-> 0, statusText |-> "", body |-> NoBodyYet,
   cause |-> "none", failedAt |-> -1, envelope |-> NoEnvelope,
   startedAt |-> -1, listing |-> <<>>]

\* tools.find(t => t.name === request.params.name)
FindTool(v, name) == \E j \in 1..Len(ToolList(v)) : ToolList(v)[j] = name

\* the position of the entry tools.find returns: the first match, 0 if none
FindIndex(v, name) ==
  IF FindTool(v, name)
  THEN Min({j \in 1..Len(ToolList(v)) : ToolList(v)[j] = name})
  ELSE 0

\* the lookup result used without the `if (!tool)` test
UnknownToolError_NoCheck(name) ==
  Err("TypeError", "Cannot read properties of undefined (reading 'handler')")

UnknownToolError(name) == Err("Error", "Unknown tool: " \o name)

\* what the client throws to the handler for the raw failure `error`
ClientFailure(v, error) ==
  IF v = "registry" THEN makeRequestCatch(error, DEFAULT_TIMEOUT)
  ELSE websimApiRequestCatch(error)

\* health_check's own catch block: an "unhealthy" report, not an error
UnhealthyEnvelope(error, now) ==
  SuccessEnvelope(Payload("false", "unhealthy",
                          "WebSim API is not accessible: " \o error.message,
                          now, NoOut))

\* the envelope of an invocation whose request client threw `error`
FailureEnvelope(v, name, error, now) ==
  IF v = "registry"
  THEN IF name = "health_check" THEN UnhealthyEnvelope(error, now)
       ELSE ErrorEnvelope(error, now)
  ELSE McpErrorEnvelope(HandlerCatch(v, name, error))

\* the envelope of an invocation whose arguments failed validation
ValidationEnvelope(v, now) ==
  IF v = "registry" THEN ErrorEnvelope(ZodError, now)
  ELSE McpErrorEnvelope(ZodError)

\* the envelope for a name that is not registered
UnknownToolEnvelope(v, name, now) ==
  IF v = "registry" THEN ErrorEnvelope(UnknownToolError(name), now)
  ELSE McpErrorEnvelope(Err("McpError", "Tool " \o name \o " not found"))

\* the CallToolRequestSchema handler up to its first suspension: lookup,
\* handler start, validation, and the fetch() of the request client
Dispatch(v, name, args, now) ==
  IF ~FindTool(v, name)
  THEN [Idle EXCEPT !.phase = "done", !.name = name, !.args = args,
                    !.startedAt = now,
                    !.cause = "UnknownTool", !.failedAt = now,
                    !.envelope = UnknownToolEnvelope(v, name, now)]
  ELSE LET r == Validate(v, name, args)
       IN IF ~r.ok
          THEN [Idle EXCEPT !.phase = "done", !.name = name, !.args = args,
                            !.startedAt = now,
                            !.found = TRUE, !.ran = (v = "registry"),
                            !.cause = "ValidationError", !.failedAt = now,
                            !.envelope = ValidationEnvelope(v, now)]
          ELSE [Idle EXCEPT !.phase = "fetch", !.name = name, !.args = args,
                            !.startedAt = now,
                            !.found = TRUE, !.ran = TRUE, !.p = r.val,
                            !.requests =
                              << FetchRequest(v, BuildEndpoint(v, name, r.val)) >>,
                            !.timer = IF v = "registry" THEN "armed" ELSE "none",
                            !.deadline = now + DEFAULT_TIMEOUT]

\* a failed attempt is repeated once before it is reported
Failed_Retry(slot, v, error, cause, now) ==
  IF Len(slot.requests) < 2
  THEN [slot EXCEPT !.phase = "fetch", !.requests = @ \o << @[1] >>]
  ELSE [slot EXCEPT !.phase = "done", !.cause = cause, !.failedAt = now,
                    !.envelope = FailureEnvelope(v, slot.name,
                                                 ClientFailure(v, error), now)]

\* an invocation ends in failure
Failed(slot, v, error, cause, now) ==
  [slot EXCEPT !.phase = "done", !.cause = cause, !.failedAt = now,
               !.envelope = FailureEnvelope(v, slot.name, ClientFailure(v, error),
                                            now)]

(***************************************************************************)
(* Arguments the callers send.                                             *)
(***************************************************************************)
LimitVals == {Undefined, Num(0), Num(1), Num(100), Num(101)}
OffsetVals == {Undefined, Num(7)}

EnumKeys(decl) == {key \in DOMAIN decl : decl[key].t = "enum"}
RequiredKeys(decl) ==
  {key \in DOMAIN decl : ~decl[key].opt /\ ~decl[key].hasDef}

StrValue(key) == IF key \in {"query", "search"} THEN "a b" ELSE "x"

MkArg(decl, key, lim, off, bad, omit, opt) ==
  LET spec == decl[key]
      wanted == (~spec.opt) \/ opt
  IN
  IF key = omit THEN Undefined
  ELSE IF key = "limit" THEN lim
  ELSE IF key = "offset" THEN off
  ELSE IF key = bad THEN Str("bogus")
  ELSE IF ~wanted THEN Undefined
  ELSE CASE spec.t = "enum" -> Str(CHOOSE e \in spec.enum : TRUE)
         [] spec.t = "string" -> Str(StrValue(key))
         [] spec.t = "number" -> Num(2)
         [] spec.t = "array" -> Arr(2)

GenArgs(decl) ==
  {[key \in DOMAIN decl |-> MkArg(decl, key, lim, off, bad, omit, opt)] :
     lim \in LimitVals, off \in OffsetVals,
     bad \in EnumKeys(decl) \cup {"-"},
     omit \in RequiredKeys(decl) \cup {"-"}, opt \in BOOLEAN}

UnknownNames == {"no_such_tool"}

Calls(v) ==
  UNION {{<<name, args>> : args \in GenArgs(Declared(v, name))} :
           name \in Range(ToolList(v))}
    \cup {<<name, args>> : name \in UnknownNames,
                           args \in {EmptyArgs, [limit |-> Num(5)]}}

(***************************************************************************)
(* Actions.                                                                *)
(***************************************************************************)
Slots == DOMAIN inv

\* the invocations the transport runs together
Invocations == {1, 2}

\* with several invocations in flight the callers' requests are drawn from
\* one tool of each kind: valid, invalid, unknown, and the health check
ConcurrentCalls(v) ==
  {c \in Calls(v) :
     \/ c[1] \in UnknownNames /\ c[2] = EmptyArgs
     \/ /\ c[1] = (CASE v = "registry" -> "search_feed"
                      [] v = "sites" -> "get_user_following"
                      [] v = "projects" -> "search_projects")
        /\ Get(c[2], "limit") \in {Undefined, Num(0)}
        /\ Get(c[2], "offset") = Undefined
        /\ \A key \in DOMAIN c[2] : c[2][key] # Str("bogus")
        /\ \A key \in DOMAIN c[2] :
             Declared(v, c[1])[key].opt => c[2][key] = Undefined
     \/ c[1] = "health_check"}

Requests(v) ==
  IF Cardinality(Slots) = 1 /\ boot.stage = "direct" THEN Calls(v)
  ELSE ConcurrentCalls(v)

ArmedDeadlines == {inv[i].deadline : i \in {j \in Slots : inv[j].timer = "armed"}}

\* every failed invocation reaches the process-level handlers
Unhandled_AnyFailure(slot) == slot.phase = "done" /\ slot.cause # "none"

\* a rejection no catch block turned into an envelope reaches
\* process.on('unhandledRejection')
Unhandled(slot) == slot.phase = "done" /\ ~slot.envelope.present

\* the handlers installed by setupErrorHandling: process.exit(1)
setupErrorHandling(i) == running' = (running /\ ~Unhandled(inv'[i]))

\* a tools/list request: tools.map(tool => ({name: tool.name, ...}))
ListTools(i) ==
  /\ running
  /\ inv[i].phase = "idle"
  /\ inv' = [inv EXCEPT ![i] =
       [Idle EXCEPT !.phase = "listed", !.startedAt = clock,
                    !.listing = ToolList(variant)]]
  /\ UNCHANGED <<variant, clock, env, calc, boot, running>>

\* a tools/call request arrives
CallTool(i) ==
  /\ running
  /\ inv[i].phase = "idle"
  /\ clock <= MaxClock
  /\ \E c \in Requests(variant) :
       inv' = [inv EXCEPT ![i] = Dispatch(variant, c[1], c[2], clock)]
  /\ setupErrorHandling(i)
  /\ UNCHANGED <<variant, clock, env, calc, boot>>

\* the rejection handled although the invocation has already ended
NetworkError_AfterEnd(i) ==
  /\ running
  /\ inv[i].phase \in {"fetch", "done"}
  /\ inv' = [inv EXCEPT ![i] = Failed(@, variant, FetchFailed, "NetworkError",
                                      clock)]
  /\ setupErrorHandling(i)
  /\ UNCHANGED <<variant, clock, env, calc, boot>>

\* fetch() rejects: DNS or connection failure
NetworkError(i) ==
  /\ running
  /\ inv[i].phase = "fetch"
  /\ inv' = [inv EXCEPT ![i] = Failed(@, variant, FetchFailed, "NetworkError",
                                      clock)]
  /\ setupErrorHandling(i)
  /\ UNCHANGED <<variant, clock, env, calc, boot>>

\* fetch() resolves with the status line and headers
ResponseArrives(i) ==
  /\ running
  /\ inv[i].phase = "fetch"
  /\ \E status \in Statuses : \E statusText \in StatusTexts(status) :
       LET got == [inv[i] EXCEPT !.status = status, !.statusText = statusText,
                                 !.timer = IF @ = "armed" THEN "cleared" ELSE @]
       IN inv' = [inv EXCEPT ![i] =
            IF Ok(status) \/ variant = "sites"
            THEN [got EXCEPT !.phase = "body"]
            ELSE IF variant = "registry"
            THEN Failed(got, variant, makeRequestHttpError(status, statusText),
                        "HttpError", clock)
            ELSE Failed(got, variant, ProjectsNotOk(status, statusText),
                        "HttpError", clock)]
  /\ setupErrorHandling(i)
  /\ UNCHANGED <<variant, clock, env, calc, boot>>

\* response.json() settles
BodyArrives(i) ==
  /\ running
  /\ inv[i].phase = "body"
  /\ \E body \in (IF Ok(inv[i].status) THEN OkBodies ELSE ErrorBodies) :
       LET got == [inv[i] EXCEPT !.body = body]
       IN inv' = [inv EXCEPT ![i] =
            IF ~Ok(got.status)
            THEN Failed(got, variant,
                        SitesNotOk(got.status, got.statusText, body),
                        "HttpError", clock)
            ELSE IF body.kind = "text"
            THEN Failed(got, variant, JsonSyntaxError, "InvalidResponse", clock)
            ELSE [got EXCEPT !.phase = "done",
                             !.envelope =
                               SuccessEnvelope(Render(variant, got.name, got.p,
                                                      body, clock))]]
  /\ setupErrorHandling(i)
  /\ UNCHANGED <<variant, clock, env, calc, boot>>

\* one AbortController shared by the client: the abort ends every fetch
TimerFires_SharedController(i) ==
  /\ running
  /\ inv[i].timer = "armed"
  /\ clock >= inv[i].deadline
  /\ inv' = [j \in Slots |->
       LET mine == [inv[j] EXCEPT !.timer = IF j = i THEN "fired" ELSE @]
       IN IF inv[j].phase = "fetch"
          THEN Failed(mine, variant, AbortError, "Timeout", clock)
          ELSE mine]
  /\ setupErrorHandling(i)
  /\ UNCHANGED <<variant, clock, env, calc, boot>>

\* the setTimeout callback runs: controller.abort()
TimerFires(i) ==
  /\ running
  /\ inv[i].timer = "armed"
  /\ clock >= inv[i].deadline
  /\ inv' = [inv EXCEPT ![i] =
       IF @.phase = "fetch"
       THEN Failed([@ EXCEPT !.timer = "fired"], variant, AbortError, "Timeout",
                   clock)
       ELSE [@ EXCEPT !.timer = "fired"]]
  /\ setupErrorHandling(i)
  /\ UNCHANGED <<variant, clock, env, calc, boot>>

\* the transport has sent the response; the slot serves the next request
Return(i) ==
  /\ running
  /\ inv[i].phase \in {"done", "listed"}
  /\ inv[i].timer # "armed"
  /\ inv' = [inv EXCEPT ![i] = Idle]
  /\ UNCHANGED <<variant, clock, env, calc, boot, running>>

\* time passes, up to the next timer that is due
Tick ==
  /\ running
  /\ \A d \in ArmedDeadlines : d > clock
  /\ clock < MaxClock \/ ArmedDeadlines # {}
  /\ clock' = Min({clock + TickMs} \cup ArmedDeadlines)
  /\ UNCHANGED <<variant, inv, env, running, calc, boot>>

\* no helper is being evaluated
NoCalc == [fn |-> "none", n |-> 0, rec |-> EmptyArgs, out |-> <<>>,
           applied |-> FALSE]

\* the server launched without the startup script: `node server.js`
Direct == [stage |-> "direct", PORT |-> "", require |-> FALSE, listening |-> 0,
           url |-> "",
           response |->
             [status |-> 0,
              body |-> [status |-> "", server |-> "", version |-> "",
                        error |-> ""]]]

(***************************************************************************)
(* The helpers and the record renderers evaluated on their own.            *)
(***************************************************************************)
\* ages of a timestamp in milliseconds: the boundaries of each branch, one
\* timestamp of the future, and a half-hour grid
Ages ==
  {0, 1, Minute - 1, Minute, Minute + 1, Hour - 1, Hour, Hour + 1,
   Day - 1, Day, Day + 1, 7 * Day - 1, 7 * Day, 7 * Day + 1, 0 - Minute}
    \cup {h * Hour + 30 * Minute : h \in 0..MaxAgeHours}

Counters ==
  {999, 1000, 1001, 121757, 999999, 1000000, 1234567}
    \cup {k * 997 : k \in 0..MaxCounterStep}

\* an optional field of an upstream record: absent, null or present
OptStrings == {Undefined, Null, Str("v")}
OptTimes == {Undefined, Null, Num(NowMs - 3 * Hour)}

Users ==
  [id : {Str("u1")}, created_at : {Num(NowMs - 2 * Day)},
   username : OptStrings, description : OptStrings, twitter : OptStrings,
   discord : OptStrings, followed_at : OptTimes]

SiteRecords ==
  [id : {Str("s1")}, state : {Str("done")}, created_at : {Num(NowMs - Hour)},
   title : OptStrings, model : OptStrings, link_url : OptStrings]

ProjectRecords ==
  [k : {"object"}, id : {Str("p1")}, title : OptStrings,
   visibility : OptStrings, updated_at : OptTimes]

Follows ==
  [created_at : {Num(NowMs - 5 * Minute)},
   user : [id : {Str("u2")}, username : OptStrings, description : OptStrings,
           twitter : OptStrings, discord : OptStrings]]

Input(fn, n, rec) == [NoCalc EXCEPT !.fn = fn, !.n = n, !.rec = rec]

Inputs ==
  {Input("formatRelativeTime", d, EmptyArgs) : d \in Ages}
    \cup {Input("formatNumber", num, EmptyArgs) : num \in Counters}
    \cup {Input("get_user_profile", 0, [user |-> user]) : user \in Users}
    \cup {Input("get_site_details", 0, [site |-> site, project |-> Undefined]) :
            site \in SiteRecords}
    \cup {Input("get_site_details", 0, [site |-> site, project |-> project]) :
            site \in {r \in SiteRecords : r.title = Str("v")},
            project \in ProjectRecords}
    \cup {Input("get_user_following", 0, [follow |-> follow]) :
            follow \in Follows}

\* formatRelativeTime(timestamp) called at NowMs
Eval_formatRelativeTime ==
  /\ calc.fn = "formatRelativeTime"
  /\ ~calc.applied
  /\ calc' = [calc EXCEPT
       !.out = << Line("", formatRelativeTime(Num(NowMs - calc.n), NowMs)) >>,
       !.applied = TRUE]
  /\ UNCHANGED <<variant, clock, inv, env, running, boot>>

\* a handler prints a counter
Eval_formatNumber ==
  /\ calc.fn = "formatNumber"
  /\ ~calc.applied
  /\ calc' = [calc EXCEPT
       !.out = << Line("", PrintCounter(variant, calc.n)) >>,
       !.applied = TRUE]
  /\ UNCHANGED <<variant, clock, inv, env, running, boot>>

\* the get_user_profile handler renders data.user
Eval_get_user_profile ==
  /\ calc.fn = "get_user_profile"
  /\ ~calc.applied
  /\ calc' = [calc EXCEPT
       !.out = get_user_profile(calc.rec.user, NowMs),
       !.applied = TRUE]
  /\ UNCHANGED <<variant, clock, inv, env, running, boot>>

\* the get_site_details handler renders data.site and data.project
Eval_get_site_details ==
  /\ calc.fn = "get_site_details"
  /\ ~calc.applied
  /\ calc' = [calc EXCEPT
       !.out = get_site_details(calc.rec.site, calc.rec.project, NowMs),
       !.applied = TRUE]
  /\ UNCHANGED <<variant, clock, inv, env, running, boot>>

\* the get_user_following handler renders the first entry
Eval_get_user_following ==
  /\ calc.fn = "get_user_following"
  /\ ~calc.applied
  /\ calc' = [calc EXCEPT
       !.out = get_user_following(0, calc.rec.follow, NowMs),
       !.applied = TRUE]
  /\ UNCHANGED <<variant, clock, inv, env, running, boot>>

(***************************************************************************)
(* The startup script and its health listener.                             *)
(***************************************************************************)
SERVER_NAME == "WebSim MCP Server"
VERSION == "1.0.0"

\* process.env.PORT: "" stands for the variable being unset (an empty string
\* is as falsy as undefined in `process.env.PORT || 8080`)
Ports == {"", "3000", "8080", "abc"}

\* request targets
Urls == {"/health", "/", "/healthz", "/metrics"}

IsDigits(str) ==
  /\ str # ""
  /\ \A j \in 1..Len(str) : Includes(DigitChars, SubSeq(str, j, j))

DigitOf(c) == (CHOOSE j \in 1..10 : SubSeq(DigitChars, j, j) = c) - 1

\* Number(port) of a string of digits
RECURSIVE NumberOf(_)
NumberOf(str) ==
  IF Len(str) = 0 THEN 0
  ELSE 10 * NumberOf(SubSeq(str, 1, Len(str) - 1))
         + DigitOf(SubSeq(str, Len(str), Len(str)))

NoBodySent == [status |-> "", server |-> "", version |-> "", error |-> ""]

NoResponse == [status |-> 0, body |-> NoBodySent]

\* res.writeHead(200, ...); res.end(JSON.stringify({status: 'healthy', ...}))
Healthy ==
  [status |-> 200,
   body |-> [NoBodySent EXCEPT !.status = "healthy", !.server = SERVER_NAME,
                               !.version = VERSION]]

\* res.writeHead(404, ...); res.end(JSON.stringify({error: 'Not Found'}))
NotFound == [status |-> 404, body |-> [NoBodySent EXCEPT !.error = "Not Found"]]

\* main() has been called; `require` is defined or not, as the build decides
Launched(port, req) ==
  [stage |-> "launched", PORT |-> port, require |-> req, listening |-> 0,
   url |-> "", response |-> NoResponse]

\* const port = process.env.PORT || 8080: the number 8080 when PORT is unset;
\* the listener is created only for a string that is a number, and
\* require('http') throws into the catch block where `require` is undefined
setupHealthCheck(b) ==
  IF b.PORT # "" /\ IsDigits(b.PORT) /\ b.require
  THEN [b EXCEPT !.stage = "health", !.listening = NumberOf(b.PORT)]
  ELSE [b EXCEPT !.stage = "health"]

\* main(): setupErrorHandling(); validateEnvironment(); setupHealthCheck()
SetupHealthCheck ==
  /\ running
  /\ boot.stage = "launched"
  /\ boot' = setupHealthCheck(boot)
  /\ UNCHANGED <<variant, clock, inv, env, running, calc>>

\* const server = createServer()
CreateServer ==
  /\ running
  /\ boot.stage = "health"
  /\ boot' = [boot EXCEPT !.stage = "created"]
  /\ UNCHANGED <<variant, clock, inv, env, running, calc>>

\* await server.start() resolves
StartServer ==
  /\ running
  /\ boot.stage = "created"
  /\ boot' = [boot EXCEPT !.stage = "started"]
  /\ UNCHANGED <<variant, clock, inv, env, running, calc>>

\* await server.start() rejects: the catch block calls process.exit(1)
StartFails ==
  /\ running
  /\ boot.stage = "created"
  /\ boot' = [boot EXCEPT !.stage = "exited", !.listening = 0]
  /\ running' = FALSE
  /\ UNCHANGED <<variant, clock, inv, env, calc>>

\* any target that begins with /health is answered as the health path
HealthRequest_PrefixMatch ==
  /\ running
  /\ boot.listening # 0
  /\ \E url \in Urls :
       boot' = [boot EXCEPT
         !.url = url,
         !.response =
           IF Len(url) >= 7 /\ SubSeq(url, 1, 7) = "/health"
           THEN Healthy
           ELSE NotFound]
  /\ UNCHANGED <<variant, clock, inv, env, running, calc>>

\* the listener's request callback: req.url === '/health'
HealthRequest ==
  /\ running
  /\ boot.listening # 0
  /\ \E url \in Urls :
       boot' = [boot EXCEPT
         !.url = url,
         !.response =
           IF url = "/health"
           THEN Healthy
           ELSE NotFound]
  /\ UNCHANGED <<variant, clock, inv, env, running, calc>>

\* process.env: the optional overrides validateEnvironment reports
NoOverrides == [WEBSIM_USER_AGENT |-> "", WEBSIM_TIMEOUT |-> 0]

Overrides == [WEBSIM_USER_AGENT |-> "custom-agent/2.0", WEBSIM_TIMEOUT |-> 15000]

Init ==
  /\ variant \in Variants
  /\ clock = 0
  /\ inv = [i \in {1} |-> Idle]
  /\ env = NoOverrides
  /\ running = TRUE
  /\ calc = NoCalc
  /\ boot = Direct

\* the server started with the documented overrides in its environment
InitEnv ==
  /\ variant \in Variants
  /\ clock = 0
  /\ inv = [i \in {1} |-> Idle]
  /\ env \in {NoOverrides, Overrides}
  /\ running = TRUE
  /\ calc = NoCalc
  /\ boot = Direct

\* the transport issues invocations concurrently
InitConcurrent ==
  /\ variant \in Variants
  /\ clock = 0
  /\ inv = [i \in Invocations |-> Idle]
  /\ env = NoOverrides
  /\ running = TRUE
  /\ calc = NoCalc
  /\ boot = Direct

Next ==
  \/ \E i \in Slots : ListTools(i)
  \/ \E i \in Slots : CallTool(i)
  \/ \E i \in Slots : NetworkError(i)
  \/ \E i \in Slots : ResponseArrives(i)
  \/ \E i \in Slots : BodyArrives(i)
  \/ \E i \in Slots : TimerFires(i)
  \/ \E i \in Slots : Return(i)
  \/ Tick

Spec == Init /\ [][Next]_vars

SpecEnv == InitEnv /\ [][Next]_vars

SpecConcurrent == InitConcurrent /\ [][Next]_vars

\* the event loop runs every timer that is due and sends every response; the
\* upstream owes nothing: no fairness on what it delivers
Fairness ==
  /\ WF_vars(Tick)
  /\ \A i \in {1} : WF_vars(TimerFires(i)) /\ WF_vars(Return(i))

SpecLive == Init /\ [][Next]_vars /\ Fairness

\* a helper or a renderer applied to one input
InitFormat ==
  /\ variant \in Variants
  /\ clock = 0
  /\ inv = [i \in {1} |-> Idle]
  /\ env = NoOverrides
  /\ running = TRUE
  /\ calc \in Inputs
  /\ calc.fn \in {"formatNumber", "formatRelativeTime"} \/ variant = "sites"
  /\ boot = Direct

NextFormat ==
  \/ Eval_formatRelativeTime
  \/ Eval_formatNumber
  \/ Eval_get_user_profile
  \/ Eval_get_site_details
  \/ Eval_get_user_following

SpecFormat == InitFormat /\ [][NextFormat]_vars

\* the server launched through main() of the startup script
InitStartup ==
  /\ variant \in Variants
  /\ clock = 0
  /\ inv = [i \in {1} |-> Idle]
  /\ env = NoOverrides
  /\ running = TRUE
  /\ calc = NoCalc
  /\ boot \in {Launched(port, req) : port \in Ports, req \in BOOLEAN}

\* requests are served once server.start() has resolved
NextStartup ==
  \/ SetupHealthCheck
  \/ CreateServer
  \/ StartServer
  \/ StartFails
  \/ HealthRequest
  \/ boot.stage = "started" /\ Next

SpecStartup == InitStartup /\ [][NextStartup]_vars

TypeOK ==
  /\ variant \in Variants
  /\ clock \in 0..(MaxClock + TickMs + DEFAULT_TIMEOUT)
  /\ running \in BOOLEAN
  /\ env \in {NoOverrides, Overrides}
  /\ \A i \in Slots :
       inv[i].phase \in {"idle", "listed", "fetch", "body", "done"}

(***************************************************************************)
(* Properties.                                                             *)
(***************************************************************************)
Started(i) == inv[i].phase \in {"fetch", "body", "done"}
Done(i) == inv[i].phase = "done"
Text(i) == inv[i].envelope.content[1].text
Decl(i) == Declared(variant, inv[i].name)

\* failures raised after the request was issued
UpstreamFailures == {"HttpError", "Timeout", "NetworkError", "InvalidResponse"}

\* C1: in the registry variant a call whose name is not in the registry ends
\* at once in a failure envelope (isError = true) whose message names the
\* unknown tool; no upstream request is issued and no handler runs.
C1_UnknownToolFails ==
  \A i \in Slots :
    (variant = "registry" /\ Started(i) /\ inv[i].name \notin Range(tools)) =>
      /\ Done(i)
      /\ inv[i].envelope.present
      /\ inv[i].envelope.isError
      /\ Includes(Text(i).message, inv[i].name)
      /\ inv[i].requests = <<>>
      /\ ~inv[i].ran

C1_Witness ==
  \E i \in Slots :
    /\ variant = "registry"
    /\ Done(i)
    /\ inv[i].name \in UnknownNames
    /\ inv[i].cause = "UnknownTool"
    /\ inv[i].envelope.isError

\* C2 as stated: in the registry variant every failure of every registered
\* tool (validation, HTTP error, timeout, network error, unparseable body)
\* yields an envelope with isError = true, a message and the timestamp of the
\* failure.
C2_EveryFailureIsErrorEnvelope ==
  \A i \in Slots :
    (variant = "registry" /\ Done(i) /\ inv[i].found /\ inv[i].cause # "none") =>
      /\ inv[i].envelope.present
      /\ inv[i].envelope.isError
      /\ Text(i).message # ""
      /\ Text(i).timestamp = inv[i].failedAt

\* What the registry variant does return: every invocation that ends yields
\* an envelope; a failure of a registered tool other than health_check yields
\* isError = true, a message and the timestamp of the failure; health_check
\* reports an upstream failure itself as a non-error "unhealthy" result
\* carrying that timestamp.
C2_FailureEnvelope ==
  \A i \in Slots :
    (variant = "registry" /\ Done(i)) =>
      /\ inv[i].envelope.present
      /\ Len(inv[i].envelope.content) = 1
      /\ (inv[i].found /\ inv[i].cause # "none") =>
           /\ Text(i).message # ""
           /\ Text(i).timestamp = inv[i].failedAt
           /\ IF inv[i].name = "health_check"
              THEN ~inv[i].envelope.isError /\ Text(i).status = "unhealthy"
              ELSE inv[i].envelope.isError /\ Text(i).success = "false"

\* the arguments break a limit bound (0 or 101) or name a value outside an
\* enumeration the tool declares
BreaksLimitOrEnum(i) ==
  \/ /\ "limit" \in DOMAIN Decl(i)
     /\ Get(inv[i].args, "limit") \in {Num(0), Num(101)}
  \/ \E key \in EnumKeys(Decl(i)) :
       /\ Get(inv[i].args, key).k # "undefined"
       /\ Get(inv[i].args, key).s \notin Decl(i)[key].enum

\* C3: a call with limit = 0, limit = 101 or a value outside a declared
\* enumeration fails with a validation error and issues no upstream request.
C3_OutOfRangeRejected ==
  \A i \in Slots :
    (Started(i) /\ inv[i].found /\ BreaksLimitOrEnum(i)) =>
      /\ inv[i].cause = "ValidationError"
      /\ inv[i].envelope.isError
      /\ inv[i].requests = <<>>

\* C4: in the registry variant a call that omits a field its inputSchema
\* lists as required fails with a validation error and issues no request.
C4_MissingRequiredRejected ==
  \A i \in Slots :
    (/\ variant = "registry"
     /\ Started(i)
     /\ inv[i].found
     /\ \E key \in RequiredKeys(Decl(i)) :
          Get(inv[i].args, key).k = "undefined") =>
      /\ inv[i].cause = "ValidationError"
      /\ inv[i].envelope.isError
      /\ inv[i].requests = <<>>

\* every argument passes its declared schema and limit lies in 1..100
InRange(i) ==
  /\ \A key \in DOMAIN Decl(i) : ZodFieldOk(Decl(i)[key], Get(inv[i].args, key))
  /\ Get(inv[i].args, "limit").k = "number" =>
       Get(inv[i].args, "limit").n \in 1..100

\* the value the caller asked for: the argument, or the declared default
Requested(i, key) == Dflt(Get(inv[i].args, key), Decl(i)[key].def)

Carries(query, keys, value) ==
  \E j \in 1..Len(query) : query[j][1] \in keys /\ query[j][2] = Dec(value.n)

\* C5: a tool that declares limit and/or offset issues, for in-range
\* arguments, exactly one request whose query string carries the caller's
\* limit and offset, or the declared defaults when the caller omitted them.
C5_QueryCarriesPaging ==
  \A i \in Slots :
    (/\ Started(i)
     /\ inv[i].found
     /\ {"limit", "offset"} \cap DOMAIN Decl(i) # {}
     /\ InRange(i)) =>
      /\ Len(inv[i].requests) = 1
      /\ "limit" \in DOMAIN Decl(i) =>
           Carries(inv[i].requests[1].query, {"limit", "first"},
                   Requested(i, "limit"))
      /\ "offset" \in DOMAIN Decl(i) =>
           Carries(inv[i].requests[1].query, {"offset"}, Requested(i, "offset"))

\* C6: no request stays unanswered beyond the timeout: once the timeout has
\* elapsed the invocation has failed with the timeout message and without
\* rendered output.
C6_TimeoutEnforced ==
  \A i \in Slots :
    /\ inv[i].phase = "fetch" => clock <= inv[i].deadline
    /\ (Done(i) /\ inv[i].cause = "Timeout") =>
         /\ Includes(Text(i).message,
                     "Request timeout after " \o Dec(DEFAULT_TIMEOUT) \o "ms")
         /\ Text(i).out = NoOut

\* C7: a 404 answer to a lookup yields one error block whose text contains
\* "not found" (case-insensitive), after exactly one request.
C7_NotFoundText ==
  \A i \in Slots :
    (Done(i) /\ inv[i].status = 404 /\ inv[i].name # "health_check") =>
      /\ Len(inv[i].envelope.content) = 1
      /\ inv[i].envelope.isError
      /\ Includes(ToLower(Text(i).message), "not found")
      /\ Len(inv[i].requests) = 1

\* C8: websimApiRequest classifies a non-2xx response: 429 gives the
\* rate-limit message, >= 500 the service-unavailable message, any other
\* status (404 apart) an API error with the upstream message when the body
\* has one and else the status and status text.
C8_StatusClassified ==
  \A i \in Slots :
    (variant \in {"sites", "projects"} /\ Done(i) /\ inv[i].status # 0
       /\ ~Ok(inv[i].status)) =>
      CASE inv[i].status = 429 ->
             Includes(Text(i).message,
                      "Rate limit exceeded. Please try again later.")
        [] inv[i].status >= 500 ->
             Includes(Text(i).message, "WebSim service temporarily unavailable")
        [] inv[i].status = 404 -> TRUE
        [] OTHER ->
             Includes(Text(i).message,
                      "WebSim API error: "
                        \o (IF inv[i].body.errmsg # "" THEN inv[i].body.errmsg
                            ELSE Dec(inv[i].status) \o " " \o inv[i].statusText))

\* C9: an invocation issues at most one upstream request; after a failed
\* attempt exactly one request has been made and the failure is in the
\* envelope returned to the caller.
C9_NoRetry ==
  \A i \in Slots :
    /\ Len(inv[i].requests) <= 1
    /\ (Done(i) /\ inv[i].cause \in UpstreamFailures) =>
         /\ Len(inv[i].requests) = 1
         /\ inv[i].envelope.present
         /\ Text(i).message # ""

C9_Witness ==
  \E i \in Slots :
    /\ Done(i)
    /\ inv[i].cause = "HttpError"
    /\ inv[i].status = 503
    /\ Len(inv[i].requests) = 1

\* a paginated tool got a successful response that signals more results
MoreAvailable(i) ==
  /\ Done(i)
  /\ inv[i].cause = "none"
  /\ inv[i].body.kind = "json"
  /\ inv[i].body.hasMore
  /\ "limit" \in DOMAIN Decl(i)

RequestedOffset(i) ==
  IF "offset" \in DOMAIN Decl(i) THEN Requested(i, "offset").n ELSE 0

\* C10 as stated: whenever more results are signalled the output ends with a
\* hint whose next position is the requested offset plus the requested limit.
C10_HintIsOffsetPlusLimit ==
  \A i \in Slots :
    MoreAvailable(i) =>
      /\ Text(i).out.hint.param # "none"
      /\ Text(i).out.hint.n = RequestedOffset(i) + Requested(i, "limit").n

\* C10 amended: when more results are signalled, list_trending_projects and
\* search_projects end with a hint whose offset is the requested offset plus
\* the requested limit; get_user_bookmarks, get_following_bookmarks,
\* get_user_following, get_user_followers and get_user_likes of the "sites"
\* variant end with a hint whose limit is the requested limit plus 20; every
\* other tool renders no hint.
C10_Hint ==
  \A i \in Slots :
    MoreAvailable(i) =>
      IF variant = "projects" /\ inv[i].name \in ProjectsFeedTools
      THEN Text(i).out.hint =
             [param |-> "offset",
              n |-> RequestedOffset(i) + Requested(i, "limit").n]
      ELSE IF variant = "sites" /\ inv[i].name \in SitesLimitOnly
      THEN Text(i).out.hint =
             [param |-> "limit", n |-> Requested(i, "limit").n + 20]
      ELSE Text(i).out.hint = NoHint

C10_Witness ==
  \E i \in Slots :
    /\ MoreAvailable(i)
    /\ variant = "projects"
    /\ inv[i].name = "search_projects"
    /\ Get(inv[i].args, "offset") = Num(7)
    /\ Get(inv[i].args, "limit") = Num(100)
    /\ Text(i).out.hint.n = 107

\* C11: the names a tools/list request returns are the names the dispatcher
\* resolves: no name is listed twice, the lookup of each listed name returns
\* the entry registered under it, every registered entry is listed, and a
\* name that is not listed is not resolved.
C11_ListingMatchesRegistry ==
  \A i \in Slots :
    /\ inv[i].phase = "listed" =>
         LET names == inv[i].listing
         IN /\ \A j, k \in 1..Len(names) : names[j] = names[k] => j = k
            /\ \A j \in 1..Len(names) : FindIndex(variant, names[j]) = j
            /\ Len(names) = Len(ToolList(variant))
            /\ \A n \in Range(ToolList(variant)) \cup UnknownNames :
                 FindTool(variant, n) <=> n \in Range(names)
    /\ (Started(i) /\ inv[i].found) =>
         ToolList(variant)[FindIndex(variant, inv[i].name)] = inv[i].name

C11_Witness ==
  \E i \in Slots :
    /\ variant = "registry"
    /\ inv[i].phase = "listed"
    /\ Len(inv[i].listing) = 25
    /\ inv[i].listing[25] = "health_check"

\* what the dispatcher does with the request of slot i when nothing else has
\* happened in the process
ServedAlone(i) ==
  Dispatch(variant, inv[i].name, inv[i].args, inv[i].startedAt)

\* C12: the process keeps running whatever invocations have failed, and an
\* invocation is served as the dispatcher serves it in a fresh process: same
\* lookup, same validated arguments, same single request, and for a successful
\* response the rendering of that response.
C12_ProcessSurvives ==
  /\ running
  /\ \A i \in Slots :
       Started(i) =>
         LET alone == ServedAlone(i)
         IN /\ inv[i].found = alone.found
            /\ inv[i].p = alone.p
            /\ inv[i].requests = alone.requests
            /\ inv[i].deadline = alone.deadline
            /\ alone.phase = "done" => inv[i] = alone
            /\ (Done(i) /\ inv[i].cause = "none") =>
                 inv[i].envelope =
                   SuccessEnvelope(Render(variant, inv[i].name, alone.p,
                                          inv[i].body, Text(i).timestamp))

C12_Witness ==
  \E i, j \in Slots :
    /\ running
    /\ Done(j)
    /\ inv[j].cause \in {"UnknownTool", "ValidationError", "HttpError",
                         "Timeout", "NetworkError"}
    /\ Done(i)
    /\ inv[i].cause = "none"
    /\ inv[j].failedAt < inv[i].startedAt

\* the error the request client of slot i raises for what slot i itself met
OwnFailure(i) ==
  CASE inv[i].cause = "NetworkError" -> FetchFailed
    [] inv[i].cause = "Timeout" -> AbortError
    [] inv[i].cause = "InvalidResponse" -> JsonSyntaxError
    [] inv[i].cause = "HttpError" ->
         CASE variant = "registry" ->
                makeRequestHttpError(inv[i].status, inv[i].statusText)
           [] variant = "sites" ->
                SitesNotOk(inv[i].status, inv[i].statusText, inv[i].body)
           [] variant = "projects" ->
                ProjectsNotOk(inv[i].status, inv[i].statusText)

\* the envelope slot i produces when it runs alone and meets the same
\* response, error or timer expiry
AloneEnvelope(i) ==
  CASE inv[i].cause = "UnknownTool" ->
         UnknownToolEnvelope(variant, inv[i].name, inv[i].failedAt)
    [] inv[i].cause = "ValidationError" ->
         ValidationEnvelope(variant, inv[i].failedAt)
    [] inv[i].cause = "none" ->
         SuccessEnvelope(Render(variant, inv[i].name, inv[i].p, inv[i].body,
                                Text(i).timestamp))
    [] OTHER ->
         FailureEnvelope(variant, inv[i].name,
                         ClientFailure(variant, OwnFailure(i)), inv[i].failedAt)

\* C13: with several invocations in flight each envelope is the one the
\* invocation produces alone; a timeout ends only the request whose own timer
\* expired, at that request's deadline, and an invocation fails only for a
\* response, error or expiry of its own request.
C13_Independent ==
  \A i \in Slots :
    /\ Done(i) => inv[i].envelope = AloneEnvelope(i)
    /\ (Done(i) /\ inv[i].cause = "Timeout") =>
         /\ inv[i].timer = "fired"
         /\ inv[i].failedAt = inv[i].startedAt + DEFAULT_TIMEOUT
    /\ (Done(i) /\ inv[i].cause \in {"HttpError", "InvalidResponse"}) =>
         inv[i].status # 0
    /\ Done(i) => Len(inv[i].requests) <= 1

C13_Witness ==
  \E i, j \in Slots :
    /\ i # j
    /\ Done(i)
    /\ inv[i].cause = "Timeout"
    /\ inv[j].phase = "fetch"
    /\ inv[j].startedAt < inv[i].failedAt
    /\ inv[j].startedAt > inv[i].startedAt

\* C14: in the registry variant an invocation whose upstream request failed
\* (non-2xx, timeout, network error, unparseable body) ends with a failure
\* envelope, isError = true, whatever the tool.
C14_UpstreamFailureIsError ==
  \A i \in Slots :
    (variant = "registry" /\ Done(i) /\ inv[i].cause \in UpstreamFailures) =>
      inv[i].envelope.isError

\* two finished invocations of the same tool with the same arguments that met
\* the same upstream outcome
SameCall(i, j) ==
  /\ i # j
  /\ Done(i)
  /\ Done(j)
  /\ inv[i].name = inv[j].name
  /\ inv[i].args = inv[j].args
  /\ inv[i].cause = inv[j].cause
  /\ inv[i].status = inv[j].status
  /\ inv[i].statusText = inv[j].statusText
  /\ inv[i].body = inv[j].body

\* the text of an envelope with its timestamp field blanked
Unstamped(i) == [Text(i) EXCEPT !.timestamp = 0]

\* the outputs that carry the time of the invocation: the failure envelopes
\* of the registry dispatcher and both results of health_check
Timestamped(i) ==
  /\ variant = "registry"
  /\ inv[i].cause # "none" \/ inv[i].name = "health_check"

\* C15 as stated: two identical invocations that meet the same upstream
\* outcome produce identical text, for every tool, on success and on failure.
C15_IdenticalOutput ==
  \A i, j \in Slots : SameCall(i, j) => inv[i].envelope = inv[j].envelope

\* C15 amended: two identical invocations that meet the same upstream outcome
\* produce envelopes that agree in everything but the timestamp field, and
\* identical ones unless the output is a failure envelope of the registry
\* dispatcher or a result of health_check.
C15_Idempotent ==
  \A i, j \in Slots :
    SameCall(i, j) =>
      /\ inv[i].envelope.isError = inv[j].envelope.isError
      /\ Len(inv[i].envelope.content) = Len(inv[j].envelope.content)
      /\ Unstamped(i) = Unstamped(j)
      /\ ~Timestamped(i) => inv[i].envelope = inv[j].envelope
      /\ (Timestamped(i) /\ inv[i].cause # "none") =>
           Text(i).timestamp = inv[i].failedAt

C15_Witness ==
  \E i, j \in Slots :
    /\ SameCall(i, j)
    /\ variant = "registry"
    /\ inv[i].name = "search_feed"
    /\ inv[i].cause = "none"
    /\ inv[i].startedAt < inv[j].startedAt
    /\ inv[i].envelope = inv[j].envelope

\* C16: every envelope an invocation ends with carries exactly one block, of
\* type text; the envelope of a failed invocation has isError = true and the
\* envelope of a successful one has no isError.
C16_OneTextBlock ==
  \A i \in Slots :
    Done(i) =>
      /\ inv[i].envelope.present
      /\ Len(inv[i].envelope.content) = 1
      /\ inv[i].envelope.content[1].type = "text"
      /\ inv[i].envelope.isError <=> inv[i].cause # "none"

\* C17: every request a tool issues uses GET and has no body, except the
\* request of bulk_asset_search, which uses POST with the caller's sub-queries
\* as its body; the method depends on the tool alone, never on the arguments.
C17_ReadOnlyMethods ==
  \A i \in Slots :
    \A r \in 1..Len(inv[i].requests) :
      IF variant = "registry" /\ inv[i].name = "bulk_asset_search"
      THEN /\ inv[i].requests[r].method = "POST"
           /\ inv[i].requests[r].body = Get(inv[i].args, "assets")
           /\ inv[i].requests[r].body # NoBody
      ELSE /\ inv[i].requests[r].method = "GET"
           /\ inv[i].requests[r].body = NoBody

C17_Witness ==
  \E i \in Slots :
    /\ variant = "registry"
    /\ inv[i].name = "bulk_asset_search"
    /\ Len(inv[i].requests) = 1
    /\ inv[i].requests[1].method = "POST"
    /\ inv[i].requests[1].body = Arr(2)

\* the names of the headers request r sets
HeaderNames(r) == {h[1] : h \in r.headers}

\* C18: every request, in every variant, carries Accept: application/json and
\* a User-Agent header.
C18_AcceptAndUserAgent ==
  \A i \in Slots :
    \A r \in 1..Len(inv[i].requests) :
      /\ <<"Accept", "application/json">> \in inv[i].requests[r].headers
      /\ "User-Agent" \in HeaderNames(inv[i].requests[r])

\* the User-Agent value of request r, "" when the client sets none
UserAgentOf(r) ==
  IF "User-Agent" \in HeaderNames(r)
  THEN (CHOOSE h \in r.headers : h[1] = "User-Agent")[2]
  ELSE ""

\* C19: with WEBSIM_USER_AGENT in the environment every request carries that
\* value as its User-Agent, and with WEBSIM_TIMEOUT in the environment a
\* request is not left unanswered for longer than that many milliseconds.
C19_EnvironmentOverrides ==
  \A i \in Slots :
    /\ env.WEBSIM_USER_AGENT # "" =>
         \A r \in 1..Len(inv[i].requests) :
           UserAgentOf(inv[i].requests[r]) = env.WEBSIM_USER_AGENT
    /\ (env.WEBSIM_TIMEOUT # 0 /\ inv[i].phase = "fetch") =>
         clock <= inv[i].startedAt + env.WEBSIM_TIMEOUT

\* the stage of the invocation a slot holds; lookup and validation happen
\* within the step that takes the request, so ToolLookup, Found and NotFound
\* are passed inside that step
Stage(slot) ==
  CASE slot.phase \in {"idle", "listed"} -> "Idle"
    [] slot.phase \in {"fetch", "body"} -> "Executing"
    [] slot.phase = "done" /\ slot.cause = "none" -> "Succeeded"
    [] slot.phase = "done" /\ slot.cause # "none" -> "Failed"

Terminal == {"Succeeded", "Failed"}

StageStep(old, new) ==
  /\ Stage(old) = "Idle" =>
       /\ Stage(new) \in {"Idle", "Executing", "Failed"}
       /\ Stage(new) = "Executing" => new.found /\ new.ran
       /\ (Stage(new) = "Failed" /\ ~new.found) =>
            /\ new.cause = "UnknownTool"
            /\ ~new.ran
            /\ new.requests = <<>>
       /\ (Stage(new) = "Failed" /\ new.found) => new.cause = "ValidationError"
  /\ Stage(old) = "Executing" =>
       /\ Stage(new) \in {"Executing", "Succeeded", "Failed"}
       /\ new.name = old.name
       /\ new.args = old.args
       /\ new.startedAt = old.startedAt
  /\ Stage(old) \in Terminal =>
       \/ Stage(new) = Stage(old) /\ new.envelope = old.envelope
       \/ new = Idle
  /\ new.envelope.present <=> Stage(new) \in Terminal

\* C20: an invocation moves only Idle -> Executing -> Succeeded or Failed, or
\* Idle -> Failed when the lookup or the validation fails; Executing is
\* entered only for a registered tool, a terminal stage is left only when the
\* slot is freed and its envelope never changes, and an envelope exists exactly
\* in the terminal stages.
C20_StateMachine ==
  [][\A i \in Slots : StageStep(inv[i], inv'[i])]_vars

C20_Witness ==
  \E i \in Slots :
    /\ Stage(inv[i]) = "Succeeded"
    /\ inv[i].found
    /\ inv[i].ran
    /\ inv[i].envelope.present
    /\ clock > inv[i].startedAt

\* the tools whose output is a header with a count followed by the entries
ListShaped(v) ==
  CASE v = "registry" -> RegistryCounted
    [] v = "sites" -> SitesLimitOnly \cup {"get_trending_sites"}
    [] v = "projects" -> ProjectsFeedTools \cup ProjectsListTools

EmptyListArrived(i) ==
  /\ Done(i)
  /\ inv[i].name \in ListShaped(variant)
  /\ inv[i].status = 200
  /\ inv[i].body.kind = "json"
  /\ inv[i].body.items = <<>>

\* C21: when the upstream answers a list-shaped tool with an empty result
\* list, the invocation does not fail: its envelope is a success with one text
\* block whose header reports a count of zero and that has no entry blocks.
C21_EmptyListSucceeds ==
  \A i \in Slots :
    EmptyListArrived(i) =>
      /\ inv[i].envelope.present
      /\ ~inv[i].envelope.isError
      /\ Len(inv[i].envelope.content) = 1
      /\ Text(i).out.count = 0
      /\ Text(i).out.blocks = <<>>

C21_Witness ==
  \E i \in Slots :
    /\ EmptyListArrived(i)
    /\ variant = "sites"
    /\ inv[i].name = "get_trending_sites"
    /\ ~inv[i].envelope.isError
    /\ Text(i).out.count = 0

\* C26: once makeRequest has returned or thrown, the timeout timer that call
\* armed is no longer pending, whatever the outcome of the fetch was.
C26_NoTimerLeftArmed ==
  \A i \in Slots :
    (variant = "registry" /\ Done(i)) => inv[i].timer # "armed"

\* a request of the registry client is in flight in slot 1
InFlight == variant = "registry" /\ inv[1].phase \in {"fetch", "body"}

\* C27: every makeRequest call eventually returns or throws, also when the
\* status line and the headers arrive in time and the body never finishes.
C27_RequestEnds == InFlight ~> (inv[1].phase = "done")

\* the part of C27 the timer does enforce: a fetch that has not settled is
\* ended, by its outcome or by the abort
C27_FetchEnds ==
  (variant = "registry" /\ inv[1].phase = "fetch") ~> (inv[1].phase # "fetch")

\* C28: the limit a limit-only tool suggests in its hint lies within the
\* range 1..100 its own schema accepts, for every accepted requested limit.
C28_HintLimitAccepted ==
  \A i \in Slots :
    (/\ Done(i)
     /\ variant = "sites"
     /\ inv[i].name \in SitesLimitOnly
     /\ inv[i].envelope.present
     /\ ~inv[i].envelope.isError
     /\ Text(i).out.hint.param = "limit") =>
      Text(i).out.hint.n \in 1..100

\* C29: the count in the header of list_trending_projects and search_projects
\* equals the number of project blocks that follow, and the blocks are
\* numbered 1..N, also when items of the feed carry no project.
C29_CountMatchesBlocks ==
  \A i \in Slots :
    (/\ Done(i)
     /\ variant = "projects"
     /\ inv[i].name \in ProjectsFeedTools
     /\ inv[i].envelope.present
     /\ ~inv[i].envelope.isError) =>
      /\ Text(i).out.count = Len(Text(i).out.blocks)
      /\ Text(i).out.blocks = [j \in 1..Text(i).out.count |-> j]

Renderers == {"get_user_profile", "get_site_details", "get_user_following"}

\* the value the evaluated record holds for the field a line is written from
FieldOf(rec, field) ==
  CASE calc.fn = "get_user_profile" -> rec.user[field]
    [] calc.fn = "get_user_following" ->
         IF field = "created_at" THEN rec.follow.created_at
         ELSE rec.follow.user[field]
    [] calc.fn = "get_site_details" ->
         IF field \in DOMAIN rec.site THEN rec.site[field]
         ELSE rec.project[SubSeq(field, 9, Len(field))]

Absent(v) == v \in {Undefined, Null}

\* C22: when an optional field of the upstream record is absent, the rendered
\* text has no line for that field, and no line prints an absent value as
\* "undefined", "null" or an empty value.
C22_AbsentFieldsOmitted ==
  (calc.fn \in Renderers /\ calc.applied) =>
    \A j \in 1..Len(calc.out) :
      /\ ~Absent(FieldOf(calc.rec, calc.out[j].field))
      /\ ~Includes(calc.out[j].text, "undefined")
      /\ ~Includes(calc.out[j].text, "null")
      /\ ~Includes(calc.out[j].text, "Invalid Date")

Relative(text) ==
  \/ text = "just now"
  \/ Len(text) > 4 /\ SubSeq(text, Len(text) - 3, Len(text)) = " ago"

RECURSIVE StripCommas(_)
StripCommas(text) ==
  IF Len(text) = 0 THEN ""
  ELSE (IF SubSeq(text, 1, 1) = "," THEN "" ELSE SubSeq(text, 1, 1))
         \o StripCommas(SubSeq(text, 2, Len(text)))

\* the digits of n in groups of three from the right, separated by commas
Grouped(text, n) ==
  /\ Len(text) % 4 # 0
  /\ \A j \in 1..Len(text) :
       SubSeq(text, j, j) = "," <=> (Len(text) - j + 1) % 4 = 0
  /\ StripCommas(text) = Dec(n)

\* C24: every non-negative counter a handler prints is rendered as its
\* decimal digits grouped in threes from the right with commas, without a
\* separator below 1000.
C24_CountersGrouped ==
  (calc.fn = "formatNumber" /\ calc.applied) =>
    /\ Grouped(calc.out[1].text, calc.n)
    /\ calc.n < 1000 => calc.out[1].text = Dec(calc.n)

\* the part of C24 that holds: formatNumber itself groups the digits
C24_FormatNumberGroups ==
  (calc.fn = "formatNumber" /\ calc.applied /\ variant # "registry") =>
    /\ Grouped(calc.out[1].text, calc.n)
    /\ calc.n = 121757 => calc.out[1].text = "121,757"

HealthAnswered ==
  boot.url # "" =>
    /\ boot.url = "/health" =>
         /\ boot.response.status = 200
         /\ boot.response.body.status = "healthy"
    /\ boot.url # "/health" =>
         /\ boot.response.status = 404
         /\ boot.response.body.error # ""

C30_ListenerStarted ==
  (boot.stage \in {"health", "created", "started"}) =>
    /\ boot.PORT = "" => boot.listening = 8080
    /\ IsDigits(boot.PORT) => boot.listening = NumberOf(boot.PORT)
====
